---- MODULE Spec2Model ----
(***************************************************************************)
(* Model of DBWNode (ros/src/twist_controller/dbw_node.py): the control    *)
(* loop thread, the three subscriber callbacks running in their own        *)
(* threads, and the three actuator publishers.  Each action is one step    *)
(* of one thread; fields of the node are shared without any lock, so the   *)
(* steps of different threads interleave freely.                           *)
(***************************************************************************)
EXTENDS Integers, FiniteSets, Sequences, TLC

\* ---------------------------------------------------------------- bounds
MaxTicks == 2        \* active ticks (ticks that publish) explored
MaxDbwMsgs == 3      \* /vehicle/dbw_enabled messages delivered
MaxTwistMsgs == 2    \* /twist_cmd messages delivered
MaxCurMsgs == 1      \* /current_velocity messages delivered
\* deliveries explored when liveness is checked (SpecLive)
MaxLiveDbwMsgs == 1
MaxLiveTwistMsgs == 1
MaxLiveCurMsgs == 1

\* ---------------------------------------------------------- input domains
None == -1                      \* Python None (velocities are >= 0 here)
LinearVals == {5}               \* msg.twist.linear.x of /twist_cmd
AngularVals == {0, 1}           \* msg.twist.angular.z of /twist_cmd
CurrentVals == {3, 4}           \* msg.twist.linear.x of /current_velocity

VARIABLES
    \* fields of DBWNode
    required_vel_linear, required_vel_angular, current_vel_linear,
    last_required_vel_angular, count_required_vel_angular, dbw_enabled,
    \* the Controller object: number of control() calls since the last reset()
    controller,
    \* publishers: number of messages published and the last one
    throttle_pub, steer_pub, brake_pub,
    \* loop thread: position, call arguments evaluated so far, returned triple
    pc, args, ret,
    \* dbw_enabled_cb thread: position, msg.data, dbw_enabled before the call
    \* (the last two are FALSE while no call is running)
    dbw_pc, dbw_msg, dbw_prev,
    \* twist_cmd_cb thread: position, msg (NoTwist while no call is running)
    tw_pc, tw_msg,
    \* rospy.is_shutdown()
    shutdown,
    \* history of the current loop iteration (what its checks read, what it did)
    tick,
    \* history of the run (deliveries and the last message of each, controller calls)
    hist

nodeVars == <<required_vel_linear, required_vel_angular, current_vel_linear,
              last_required_vel_angular, count_required_vel_angular, dbw_enabled>>
velVars == <<required_vel_linear, required_vel_angular, current_vel_linear,
             last_required_vel_angular, count_required_vel_angular>>
pubVars == <<throttle_pub, steer_pub, brake_pub>>
loopVars == <<pc, args, ret, tick>>
dbwVars == <<dbw_pc, dbw_msg, dbw_prev>>
twVars == <<tw_pc, tw_msg>>
vars == <<nodeVars, controller, pubVars, loopVars, dbwVars, twVars, shutdown, hist>>

\* ------------------------------------------------------------ collaborators
\* Controller.control: stateful; returns (throttle, brake, steer)
ControlResults == {[throttle |-> 0, brake |-> 0, steer |-> 0],
                   [throttle |-> 1, brake |-> 2, steer |-> 3]}
ControllerControl(c) == c + 1
\* Controller.reset: clears the state
ControllerReset(c) == 0

\* messages
NoCmd == [enable |-> FALSE, cmd_type |-> "CMD_NONE", value |-> None]
ThrottleCmd(v) == [enable |-> TRUE, cmd_type |-> "CMD_PERCENT", value |-> v]
SteeringCmd(v) == [enable |-> TRUE, cmd_type |-> "ANGLE", value |-> v]
BrakeCmd(v) == [enable |-> TRUE, cmd_type |-> "CMD_TORQUE", value |-> v]

NoTwist == [linear |-> None, angular |-> None]
NoArgs == [lin |-> None, ang |-> None, cur |-> None, lin_id |-> 0, ang_id |-> 0, cur_id |-> 0]
NoRet == [throttle |-> None, brake |-> None, steer |-> None]
NewTick == [gate |-> FALSE, skip |-> "no", fault |-> "no",
            calls |-> 0, thr |-> 0, steer |-> 0, brake |-> 0]

\* which delivery (0: none, the __init__ value) wrote each field
CurSrc == hist.nCur
LinSrc == hist.nTwist
AngSrc == IF tw_pc = "angular" THEN hist.nTwist - 1 ELSE hist.nTwist

\* ------------------------------------------------------------------- Init
Init ==
    /\ required_vel_linear = None
    /\ required_vel_angular = None
    /\ current_vel_linear = None
    /\ last_required_vel_angular = 0
    /\ count_required_vel_angular = 0
    /\ dbw_enabled = FALSE
    /\ controller = 0
    /\ throttle_pub = [n |-> 0, msg |-> NoCmd]
    /\ steer_pub = [n |-> 0, msg |-> NoCmd]
    /\ brake_pub = [n |-> 0, msg |-> NoCmd]
    /\ pc = "top"
    /\ args = NoArgs
    /\ ret = NoRet
    /\ dbw_pc = "idle"
    /\ dbw_msg = FALSE
    /\ dbw_prev = FALSE
    /\ tw_pc = "idle"
    /\ tw_msg = NoTwist
    /\ shutdown = FALSE
    /\ tick = NewTick
    /\ hist = [nTwist |-> 0, nCur |-> 0, nTrue |-> 0, nFalse |-> 0,
               nReset |-> 0, nControl |-> 0, awaiting |-> FALSE,
               lastCur |-> None, lastTwist |-> NoTwist]

\* ------------------------------------------------------------- loop thread
\* while not rospy.is_shutdown(): condition true, the body starts
loop_enter ==
    /\ pc = "top"
    /\ ~shutdown
    /\ throttle_pub.n < MaxTicks
    /\ pc' = "chk_cur"
    /\ tick' = NewTick
    /\ UNCHANGED <<nodeVars, controller, pubVars, args, ret, dbwVars, twVars, shutdown, hist>>

\* while not rospy.is_shutdown(): condition false, the loop returns
loop_exit ==
    /\ pc = "top"
    /\ shutdown
    /\ pc' = "done"
    /\ UNCHANGED <<nodeVars, controller, pubVars, args, ret, tick, dbwVars, twVars, shutdown, hist>>

\* variant: the current velocity is not checked
loop_check_current_nocheck ==
    /\ pc = "chk_cur"
    /\ pc' = "chk_req"
    /\ UNCHANGED tick
    /\ UNCHANGED <<nodeVars, controller, pubVars, args, ret, dbwVars, twVars, shutdown, hist>>

\* variant: the loop waits in place for the current velocity
loop_check_current_wait ==
    /\ pc = "chk_cur"
    /\ pc' = IF current_vel_linear = None THEN "chk_cur" ELSE "chk_req"
    /\ tick' = [tick EXCEPT !.skip = IF current_vel_linear = None THEN "current" ELSE @]
    /\ UNCHANGED <<nodeVars, controller, pubVars, args, ret, dbwVars, twVars, shutdown, hist>>

\* if self.current_vel_linear is None ...: continue
loop_check_current ==
    /\ pc = "chk_cur"
    /\ pc' = IF current_vel_linear = None THEN "top" ELSE "chk_req"
    /\ tick' = [tick EXCEPT !.skip = IF current_vel_linear = None THEN "current" ELSE @]
    /\ UNCHANGED <<nodeVars, controller, pubVars, args, ret, dbwVars, twVars, shutdown, hist>>

\* variant: the target velocity is not checked
loop_check_required_nocheck ==
    /\ pc = "chk_req"
    /\ pc' = "chk_dbw"
    /\ UNCHANGED tick
    /\ UNCHANGED <<nodeVars, controller, pubVars, args, ret, dbwVars, twVars, shutdown, hist>>

\* ... or self.required_vel_linear is None ...: continue
loop_check_required ==
    /\ pc = "chk_req"
    /\ pc' = IF required_vel_linear = None THEN "top" ELSE "chk_dbw"
    /\ tick' = [tick EXCEPT !.skip = IF required_vel_linear = None THEN "required" ELSE @]
    /\ UNCHANGED <<nodeVars, controller, pubVars, args, ret, dbwVars, twVars, shutdown, hist>>

\* variant: the gate is read but a disabled gate does not skip the tick
loop_check_dbw_noskip ==
    /\ pc = "chk_dbw"
    /\ pc' = "arg_lin"
    /\ tick' = [tick EXCEPT !.gate = dbw_enabled]
    /\ UNCHANGED <<nodeVars, controller, pubVars, args, ret, dbwVars, twVars, shutdown, hist>>

\* ... or not self.dbw_enabled: continue
loop_check_dbw ==
    /\ pc = "chk_dbw"
    /\ pc' = IF ~dbw_enabled THEN "top" ELSE "arg_lin"
    /\ tick' = [tick EXCEPT !.gate = dbw_enabled,
                            !.skip = IF ~dbw_enabled THEN "dbw" ELSE @]
    /\ UNCHANGED <<nodeVars, controller, pubVars, args, ret, dbwVars, twVars, shutdown, hist>>

\* argument 1 of controller.control: self.required_vel_linear
loop_arg_linear ==
    /\ pc = "arg_lin"
    /\ args' = [args EXCEPT !.lin = required_vel_linear, !.lin_id = LinSrc]
    /\ pc' = "arg_ang"
    /\ UNCHANGED <<nodeVars, controller, pubVars, ret, tick, dbwVars, twVars, shutdown, hist>>

\* argument 2 of controller.control: self.required_vel_angular
loop_arg_angular ==
    /\ pc = "arg_ang"
    /\ args' = [args EXCEPT !.ang = required_vel_angular, !.ang_id = AngSrc]
    /\ pc' = "arg_cur"
    /\ UNCHANGED <<nodeVars, controller, pubVars, ret, tick, dbwVars, twVars, shutdown, hist>>

\* argument 3 of controller.control: self.current_vel_linear
loop_arg_current ==
    /\ pc = "arg_cur"
    /\ args' = [args EXCEPT !.cur = current_vel_linear, !.cur_id = CurSrc]
    /\ pc' = "call"
    /\ UNCHANGED <<nodeVars, controller, pubVars, ret, tick, dbwVars, twVars, shutdown, hist>>

\* throttle, brake, steer = self.controller.control(...)
loop_control ==
    /\ pc = "call"
    /\ \E r \in ControlResults : ret' = r
    /\ controller' = ControllerControl(controller)
    /\ tick' = [tick EXCEPT !.calls = @ + 1]
    /\ hist' = [hist EXCEPT !.nControl = @ + 1]
    /\ args' = NoArgs
    /\ pc' = "pub_throttle"
    /\ UNCHANGED <<nodeVars, pubVars, dbwVars, twVars, shutdown>>

\* variant: a raising control is caught and the previous triple is published
loop_control_raise_caught ==
    /\ pc = "call"
    /\ controller' \in {controller, ControllerControl(controller)}
    /\ tick' = [tick EXCEPT !.calls = @ + 1, !.fault = "control"]
    /\ hist' = [hist EXCEPT !.nControl = @ + 1]
    /\ args' = NoArgs
    /\ pc' = "pub_throttle"
    /\ UNCHANGED <<nodeVars, pubVars, ret, dbwVars, twVars, shutdown>>

\* self.controller.control(...) raises: nothing in loop or __init__ catches
\* it, the loop thread ends with the assignment of line 82 not executed
loop_control_raise ==
    /\ pc = "call"
    /\ controller' \in {controller, ControllerControl(controller)}
    /\ tick' = [tick EXCEPT !.calls = @ + 1, !.fault = "control"]
    /\ hist' = [hist EXCEPT !.nControl = @ + 1]
    /\ args' = NoArgs
    /\ pc' = "raised"
    /\ UNCHANGED <<nodeVars, pubVars, ret, dbwVars, twVars, shutdown>>

\* publish: tcmd ... self.throttle_pub.publish(tcmd)
publish_throttle ==
    /\ pc = "pub_throttle"
    /\ throttle_pub' = [n |-> throttle_pub.n + 1, msg |-> ThrottleCmd(ret.throttle)]
    /\ tick' = [tick EXCEPT !.thr = @ + 1]
    /\ pc' = "pub_steer"
    /\ UNCHANGED <<nodeVars, controller, steer_pub, brake_pub, args, ret, dbwVars, twVars, shutdown, hist>>

\* self.throttle_pub.publish(tcmd) raises: the exception leaves publish and loop
publish_throttle_raise ==
    /\ pc = "pub_throttle"
    /\ tick' = [tick EXCEPT !.fault = "throttle"]
    /\ pc' = "raised"
    /\ UNCHANGED <<nodeVars, controller, pubVars, args, ret, dbwVars, twVars, shutdown, hist>>

\* variant: publish returns early when the node is shutting down
publish_steer_shutdown ==
    /\ pc = "pub_steer"
    /\ IF shutdown
         THEN /\ pc' = "done"
              /\ UNCHANGED <<steer_pub, tick>>
         ELSE /\ steer_pub' = [n |-> steer_pub.n + 1, msg |-> SteeringCmd(ret.steer)]
              /\ tick' = [tick EXCEPT !.steer = @ + 1]
              /\ pc' = "pub_brake"
    /\ UNCHANGED <<nodeVars, controller, throttle_pub, brake_pub, args, ret, dbwVars, twVars, shutdown, hist>>

\* publish: scmd ... self.steer_pub.publish(scmd)
publish_steer ==
    /\ pc = "pub_steer"
    /\ steer_pub' = [n |-> steer_pub.n + 1, msg |-> SteeringCmd(ret.steer)]
    /\ tick' = [tick EXCEPT !.steer = @ + 1]
    /\ pc' = "pub_brake"
    /\ UNCHANGED <<nodeVars, controller, throttle_pub, brake_pub, args, ret, dbwVars, twVars, shutdown, hist>>

\* self.steer_pub.publish(scmd) raises: the exception leaves publish and loop
publish_steer_raise ==
    /\ pc = "pub_steer"
    /\ tick' = [tick EXCEPT !.fault = "steer"]
    /\ pc' = "raised"
    /\ UNCHANGED <<nodeVars, controller, pubVars, args, ret, dbwVars, twVars, shutdown, hist>>

\* variant: the brake command carries the steering value
publish_brake_swapped ==
    /\ pc = "pub_brake"
    /\ brake_pub' = [n |-> brake_pub.n + 1, msg |-> BrakeCmd(ret.steer)]
    /\ tick' = [tick EXCEPT !.brake = @ + 1]
    /\ pc' = "sleep"
    /\ UNCHANGED <<nodeVars, controller, throttle_pub, steer_pub, args, ret, dbwVars, twVars, shutdown, hist>>

\* publish: bcmd ... self.brake_pub.publish(bcmd)
publish_brake ==
    /\ pc = "pub_brake"
    /\ brake_pub' = [n |-> brake_pub.n + 1, msg |-> BrakeCmd(ret.brake)]
    /\ tick' = [tick EXCEPT !.brake = @ + 1]
    /\ pc' = "sleep"
    /\ UNCHANGED <<nodeVars, controller, throttle_pub, steer_pub, args, ret, dbwVars, twVars, shutdown, hist>>

\* self.brake_pub.publish(bcmd) raises: the exception leaves publish and loop
publish_brake_raise ==
    /\ pc = "pub_brake"
    /\ tick' = [tick EXCEPT !.fault = "brake"]
    /\ pc' = "raised"
    /\ UNCHANGED <<nodeVars, controller, pubVars, args, ret, dbwVars, twVars, shutdown, hist>>

\* variant: a staleness timeout forgets the current velocity after a tick
rate_sleep_stale ==
    /\ pc = "sleep"
    /\ pc' = "top"
    /\ current_vel_linear' = None
    /\ UNCHANGED <<required_vel_linear, required_vel_angular, last_required_vel_angular,
                   count_required_vel_angular, dbw_enabled, controller, pubVars,
                   args, ret, tick, dbwVars, twVars, shutdown, hist>>

\* rate.sleep()
rate_sleep ==
    /\ pc = "sleep"
    /\ pc' = "top"
    /\ UNCHANGED <<nodeVars, controller, pubVars, args, ret, tick, dbwVars, twVars, shutdown, hist>>

\* -------------------------------------------------------- dbw_enabled_cb
\* self.dbw_enabled = msg.data
dbw_enabled_cb_store(data) ==
    /\ dbw_pc = "idle"
    /\ hist.nTrue + hist.nFalse < MaxDbwMsgs
    /\ dbw_prev' = dbw_enabled
    /\ dbw_msg' = data
    /\ dbw_enabled' = data
    /\ dbw_pc' = "if"
    /\ hist' = [hist EXCEPT !.nTrue = IF data THEN @ + 1 ELSE @,
                            !.nFalse = IF data THEN @ ELSE @ + 1,
                            !.awaiting = IF data THEN FALSE ELSE @]
    /\ UNCHANGED <<velVars, controller, pubVars, loopVars, twVars, shutdown>>

\* variant: reset only on an ENABLED -> DISABLED transition
dbw_enabled_cb_reset_edge ==
    /\ dbw_pc = "if"
    /\ IF ~dbw_enabled /\ dbw_prev
         THEN /\ controller' = ControllerReset(controller)
              /\ hist' = [hist EXCEPT !.nReset = @ + 1, !.awaiting = TRUE]
         ELSE UNCHANGED <<controller, hist>>
    /\ dbw_pc' = "idle"
    /\ dbw_msg' = FALSE
    /\ dbw_prev' = FALSE
    /\ UNCHANGED <<nodeVars, pubVars, loopVars, twVars, shutdown>>

\* variant: reset on every signal
dbw_enabled_cb_reset_always ==
    /\ dbw_pc = "if"
    /\ controller' = ControllerReset(controller)
    /\ hist' = [hist EXCEPT !.nReset = @ + 1, !.awaiting = ~dbw_enabled]
    /\ dbw_pc' = "idle"
    /\ dbw_msg' = FALSE
    /\ dbw_prev' = FALSE
    /\ UNCHANGED <<nodeVars, pubVars, loopVars, twVars, shutdown>>

\* variant: the test of the flag is inverted
dbw_enabled_cb_reset_inverted ==
    /\ dbw_pc = "if"
    /\ IF dbw_enabled
         THEN /\ controller' = ControllerReset(controller)
              /\ hist' = [hist EXCEPT !.nReset = @ + 1, !.awaiting = TRUE]
         ELSE UNCHANGED <<controller, hist>>
    /\ dbw_pc' = "idle"
    /\ dbw_msg' = FALSE
    /\ dbw_prev' = FALSE
    /\ UNCHANGED <<nodeVars, pubVars, loopVars, twVars, shutdown>>

\* if not self.dbw_enabled: self.controller.reset()
dbw_enabled_cb_reset ==
    /\ dbw_pc = "if"
    /\ IF ~dbw_enabled
         THEN /\ controller' = ControllerReset(controller)
              /\ hist' = [hist EXCEPT !.nReset = @ + 1, !.awaiting = TRUE]
         ELSE UNCHANGED <<controller, hist>>
    /\ dbw_pc' = "idle"
    /\ dbw_msg' = FALSE
    /\ dbw_prev' = FALSE
    /\ UNCHANGED <<nodeVars, pubVars, loopVars, twVars, shutdown>>

\* ---------------------------------------------------- current_velocity_cb
\* self.current_vel_linear = msg.twist.linear.x
current_velocity_cb(x) ==
    /\ hist.nCur < MaxCurMsgs
    /\ current_vel_linear' = x
    /\ hist' = [hist EXCEPT !.nCur = @ + 1, !.lastCur = x]
    /\ UNCHANGED <<required_vel_linear, required_vel_angular, last_required_vel_angular,
                   count_required_vel_angular, dbw_enabled, controller, pubVars,
                   loopVars, dbwVars, twVars, shutdown>>

\* ------------------------------------------------------------ twist_cmd_cb
\* self.required_vel_linear = msg.twist.linear.x
twist_cmd_cb_linear(x, z) ==
    /\ tw_pc = "idle"
    /\ hist.nTwist < MaxTwistMsgs
    /\ tw_msg' = [linear |-> x, angular |-> z]
    /\ required_vel_linear' = x
    /\ tw_pc' = "angular"
    /\ hist' = [hist EXCEPT !.nTwist = @ + 1,
                            !.lastTwist = [linear |-> x, angular |-> z]]
    /\ UNCHANGED <<required_vel_angular, current_vel_linear, last_required_vel_angular,
                   count_required_vel_angular, dbw_enabled, controller, pubVars,
                   loopVars, dbwVars, shutdown>>

\* variant: the angular target is stored only while it is still unknown
twist_cmd_cb_angular_first_wins ==
    /\ tw_pc = "angular"
    /\ required_vel_angular' =
          IF required_vel_angular = None THEN tw_msg.angular ELSE required_vel_angular
    /\ tw_pc' = "debug"
    /\ UNCHANGED <<required_vel_linear, current_vel_linear, last_required_vel_angular,
                   count_required_vel_angular, dbw_enabled, controller, pubVars,
                   loopVars, dbwVars, tw_msg, shutdown, hist>>

\* self.required_vel_angular = msg.twist.angular.z
twist_cmd_cb_angular ==
    /\ tw_pc = "angular"
    /\ required_vel_angular' = tw_msg.angular
    /\ tw_pc' = "debug"
    /\ UNCHANGED <<required_vel_linear, current_vel_linear, last_required_vel_angular,
                   count_required_vel_angular, dbw_enabled, controller, pubVars,
                   loopVars, dbwVars, tw_msg, shutdown, hist>>

\* the "veer" bookkeeping: count of consecutive equal angular targets
twist_cmd_cb_debug ==
    /\ tw_pc = "debug"
    /\ count_required_vel_angular' =
          (IF required_vel_angular # last_required_vel_angular
             THEN 0 ELSE count_required_vel_angular) + 1
    /\ last_required_vel_angular' = required_vel_angular
    /\ tw_pc' = "idle"
    /\ tw_msg' = NoTwist
    /\ UNCHANGED <<required_vel_linear, required_vel_angular, current_vel_linear,
                   dbw_enabled, controller, pubVars, loopVars, dbwVars,
                   shutdown, hist>>

\* ---------------------------------------------------------------- shutdown
signal_shutdown ==
    /\ ~shutdown
    /\ shutdown' = TRUE
    /\ UNCHANGED <<nodeVars, controller, pubVars, loopVars, dbwVars, twVars, hist>>

Next ==
    \/ loop_enter
    \/ loop_exit
    \/ loop_check_current
    \/ loop_check_required
    \/ loop_check_dbw
    \/ loop_arg_linear
    \/ loop_arg_angular
    \/ loop_arg_current
    \/ loop_control
    \/ publish_throttle
    \/ publish_steer
    \/ publish_brake
    \/ rate_sleep
    \/ \E data \in BOOLEAN : dbw_enabled_cb_store(data)
    \/ dbw_enabled_cb_reset
    \/ \E x \in CurrentVals : current_velocity_cb(x)
    \/ \E x \in LinearVals, z \in AngularVals : twist_cmd_cb_linear(x, z)
    \/ twist_cmd_cb_angular
    \/ twist_cmd_cb_debug
    \/ signal_shutdown

Spec == Init /\ [][Next]_vars

\* the same program when control and the publishers may raise
NextFault ==
    \/ Next
    \/ loop_control_raise
    \/ publish_throttle_raise
    \/ publish_steer_raise
    \/ publish_brake_raise

SpecFault == Init /\ [][NextFault]_vars

\* the loop runs in the main thread, which is always scheduled again
loop_step ==
    \/ loop_enter
    \/ loop_exit
    \/ loop_check_current
    \/ loop_check_required
    \/ loop_check_dbw
    \/ loop_arg_linear
    \/ loop_arg_angular
    \/ loop_arg_current
    \/ loop_control
    \/ publish_throttle
    \/ publish_steer
    \/ publish_brake
    \/ rate_sleep

\* the steps of Next within the deliveries explored for liveness
LiveBounds ==
    /\ hist.nTrue + hist.nFalse <= MaxLiveDbwMsgs
    /\ hist.nTwist <= MaxLiveTwistMsgs
    /\ hist.nCur <= MaxLiveCurMsgs

NextLive == Next /\ LiveBounds'

SpecLive == Init /\ [][NextLive]_vars /\ WF_vars(loop_step)

\* ------------------------------------------------------------- properties
PublishStep ==
    throttle_pub' # throttle_pub \/ steer_pub' # steer_pub \/ brake_pub' # brake_pub
ControlStep == hist'.nControl # hist.nControl
ResetStep == hist'.nReset # hist.nReset
Published == throttle_pub.n + steer_pub.n + brake_pub.n

\* C1: a command is published only in a tick whose gate check read
\* dbw_enabled = True and after both twist_cmd_cb and current_velocity_cb
\* have been delivered at least once.
C1_PublishOnlyGatedAndReady ==
    [][PublishStep => tick.gate /\ hist.nTwist > 0 /\ hist.nCur > 0]_vars

C1_Witness ==
    /\ pc = "sleep" /\ brake_pub.n = 1
    /\ tick.gate /\ hist.nTwist > 0 /\ hist.nCur > 0

\* C2: as long as no EnableSignal with value true has been delivered,
\* nothing has been published on any channel.
C2_NeverEnabledNeverPublishes == hist.nTrue = 0 => Published = 0

C2_Witness ==
    /\ hist.nTrue = 0 /\ hist.nFalse > 0
    /\ hist.nTwist > 0 /\ hist.nCur > 0
    /\ tick.skip = "dbw" /\ Published = 0

C4_FreshAfterReenable ==
    [][(hist.awaiting /\ ~hist'.awaiting) => controller = 0]_vars

\* C5: once False has been stored in dbw_enabled, nothing is published
\* until True has been stored again.
C5_NoPublishAfterDisable ==
    [][PublishStep => ~(hist.nFalse > 0 /\ ~dbw_enabled)]_vars

\* C6: the target linear and target angular arguments of a control call
\* come from the same twist_cmd_cb delivery.
C6_TargetPairConsistent ==
    [][ControlStep => args.lin_id = args.ang_id]_vars

\* C7: a tick makes at most one control call and one publish per channel;
\* a tick that reaches the pacing wait made exactly one of each, each
\* published command carries the value control returned for its channel
\* with enable = True, and each argument of the call is the stored value
\* it was read from (as long as no later delivery has overwritten it).
C7_ActiveTick ==
    /\ tick.calls <= 1 /\ tick.thr <= 1 /\ tick.steer <= 1 /\ tick.brake <= 1
    /\ pc = "sleep" =>
          /\ tick.calls = 1 /\ tick.thr = 1 /\ tick.steer = 1 /\ tick.brake = 1
          /\ throttle_pub.msg = [enable |-> TRUE, cmd_type |-> "CMD_PERCENT", value |-> ret.throttle]
          /\ steer_pub.msg = [enable |-> TRUE, cmd_type |-> "ANGLE", value |-> ret.steer]
          /\ brake_pub.msg = [enable |-> TRUE, cmd_type |-> "CMD_TORQUE", value |-> ret.brake]
    /\ pc = "call" =>
          /\ args.lin_id = LinSrc => args.lin = required_vel_linear
          /\ args.ang_id = AngSrc => args.ang = required_vel_angular
          /\ args.cur_id = CurSrc => args.cur = current_vel_linear

C7_Witness ==
    /\ pc = "sleep" /\ tick.calls = 1 /\ brake_pub.n = 2
    /\ ret.throttle # ret.brake /\ ret.brake # ret.steer /\ ret.throttle # ret.steer
    /\ hist.nTwist = 2 /\ tw_pc = "idle"

\* C8: control is called only in a tick whose checks found the gate enabled
\* and both velocities delivered; the controller's state changes only in a
\* control call or in reset().
C8_SkippedTickLeavesController ==
    [][/\ ControlStep => /\ tick.gate /\ tick.skip = "no"
                         /\ hist.nTwist > 0 /\ hist.nCur > 0
       /\ controller' # controller => ControlStep \/ ResetStep]_vars

C8_Witness ==
    /\ pc = "top" /\ tick.skip = "dbw" /\ tick.calls = 0
    /\ controller > 0 /\ hist.nTwist > 0 /\ hist.nCur > 0

\* C9: the steps of dbw_enabled_cb for a signal with value true leave
\* dbw_enabled = True, call neither reset() nor control, publish nothing
\* and leave the stored velocities unchanged.
C9_EnableHasNoSideEffect ==
    [][((dbw_pc = "idle" /\ dbw_pc' = "if" /\ dbw_msg') \/ (dbw_pc = "if" /\ dbw_pc' = "idle" /\ dbw_msg))
         => /\ dbw_enabled' = TRUE
            /\ ~ResetStep /\ ~ControlStep
            /\ UNCHANGED <<controller, pubVars, velVars>>]_vars

C9_Witness ==
    /\ dbw_pc = "if" /\ dbw_msg /\ dbw_enabled
    /\ controller > 0 /\ current_vel_linear # None /\ required_vel_linear # None

\* C10: when the loop has returned because of shutdown, the three channels
\* have published the same number of commands.
C10_ShutdownBetweenTicks ==
    pc = "done" => throttle_pub.n = steer_pub.n /\ steer_pub.n = brake_pub.n

C10_Witness ==
    pc = "done" /\ shutdown /\ throttle_pub.n > 0 /\ brake_pub.n = throttle_pub.n


\* C11: a tick in which control raised publishes on no channel, the loop
\* thread stops there (the exception is not caught) and nothing is
\* published from then on.
C11_ControlFaultFailStop ==
    [][tick.fault = "control"
         => /\ pc = "raised" /\ pc' = "raised"
            /\ tick.thr = 0 /\ tick.steer = 0 /\ tick.brake = 0
            /\ ~PublishStep]_vars

C11_Witness ==
    /\ pc = "raised" /\ tick.fault = "control"
    /\ throttle_pub.n = 1 /\ steer_pub.n = 1 /\ brake_pub.n = 1
    /\ dbw_enabled /\ hist.nControl = 2

\* C12: in a tick in which the publish of one channel raised, the commands
\* of the other two channels have been published (the loop thread has ended
\* by then, so what is not published at that point never is).
C12_ChannelsIndependent ==
    /\ tick.fault = "throttle" => tick.steer = 1 /\ tick.brake = 1
    /\ tick.fault = "steer" => tick.thr = 1 /\ tick.brake = 1
    /\ tick.fault = "brake" => tick.thr = 1 /\ tick.steer = 1

Ready == current_vel_linear # None /\ required_vel_linear # None

\* C13: a velocity that is known never becomes unknown again, and while
\* both are known, the gate is enabled and there is no shutdown, the loop
\* goes on to publish the commands of a further tick, whether or not any
\* further velocity update arrives (up to MaxTicks ticks).
C13_NoStalenessTimeout ==
    /\ [][/\ current_vel_linear # None => current_vel_linear' # None
          /\ required_vel_linear # None => required_vel_linear' # None
          /\ required_vel_angular # None => required_vel_angular' # None]_vars
    /\ \A k \in 0 .. (MaxTicks - 1) :
          (Ready /\ dbw_enabled /\ ~shutdown /\ brake_pub.n = k)
            ~> (brake_pub.n > k \/ ~dbw_enabled \/ shutdown)

C13_Witness ==
    /\ brake_pub.n = 2 /\ pc = "sleep"
    /\ hist.nTwist = 1 /\ hist.nCur = 1 /\ hist.nTrue = 1 /\ hist.nFalse = 0
    /\ ~shutdown

\* C14: the loop comes back to the test of its while condition only from
\* the pacing wait (rate.sleep), in skipped ticks as in active ones.
C14_EveryTickPaced ==
    [][(pc' = "top" /\ pc # "top") => pc = "sleep"]_vars

\* C15: the loop thread stops running only by returning after a shutdown
\* or because control raised.
C15_LoopEndsOnlyOnShutdownOrControlFault ==
    [][(pc \notin {"done", "raised"} /\ pc' \in {"done", "raised"})
         => \/ shutdown /\ pc' = "done"
            \/ tick'.fault = "control"]_vars

\* C16: every argument of a control call is a known value (not None).
C16_ControlArgsKnown ==
    [][ControlStep => args.lin # None /\ args.ang # None /\ args.cur # None]_vars

\* C17: the number of reset() calls made so far equals the number of
\* EnableSignal deliveries with value false that dbw_enabled_cb has finished
\* processing.
FalseProcessed == hist.nFalse - (IF dbw_pc = "if" /\ ~dbw_msg THEN 1 ELSE 0)

C17_ResetCountIsFalseCount == hist.nReset = FalseProcessed

C17_Witness ==
    /\ dbw_pc = "idle" /\ hist.nTrue = 1 /\ hist.nFalse = 2
    /\ hist.nReset = 2 /\ ~dbw_enabled

\* C18: once shutdown has been signalled the loop returns, whatever it was
\* doing (skipping on a disabled gate or an unknown velocity, or in or
\* between active ticks).
C18_ShutdownEndsLoop == shutdown ~> pc = "done"

C18_Witness ==
    /\ pc = "done" /\ shutdown /\ tick.skip = "current"
    /\ current_vel_linear = None /\ dbw_enabled

\* C19: a step of current_velocity_cb changes only current_vel_linear, a
\* step of twist_cmd_cb changes only the target fields and the veer
\* bookkeeping; neither changes dbw_enabled, the controller or a publisher;
\* and the stored values are those of the last delivered message.
CurrentCbStep == hist'.nCur # hist.nCur
TwistCbStep == tw_pc' # tw_pc

TypeOK ==
    /\ pc \in {"top", "chk_cur", "chk_req", "chk_dbw", "arg_lin", "arg_ang", "arg_cur",
               "call", "pub_throttle", "pub_steer", "pub_brake", "sleep", "done",
               "raised"}
    /\ dbw_pc \in {"idle", "if"}
    /\ tw_pc \in {"idle", "angular", "debug"}
    /\ dbw_enabled \in BOOLEAN
    /\ controller \in Nat
====
